---- MODULE Spec2Model ----
(***************************************************************************)
(* Model of OpenRouterService.getChatCompletion                            *)
(* (src/src/lib/openrouter.service.ts): local validation, transport with   *)
(* retry (_request, _fetchWithRetry) and response classification           *)
(* (_handleApiResponse).  One call is followed from its invocation to its  *)
(* result; every await of the code is a step of the model.                 *)
(*                                                                         *)
(* SpecGenerate follows one request to POST /api/flashcards/generate       *)
(* (src/src/pages/api/flashcards/generate.ts) through                      *)
(* FlashcardService.generateFlashcards                                     *)
(* (src/src/services/flashcard.service.ts) and the client to its answer.   *)
(* SpecCreate follows one request to POST /api/flashcards; SpecReview      *)
(* follows two concurrent reviews of one flashcard, by the review endpoint *)
(* or by FlashcardService.reviewFlashcard.                                 *)
(*                                                                         *)
(* JavaScript strings are sequences of text fragments; String.includes is  *)
(* a search for a fragment, a template literal is a concatenation.         *)
(***************************************************************************)
EXTENDS Integers, Sequences, FiniteSets, TLC

----------------------------------------------------------------------------
(* Bounds of the explored inputs *)

\* longest gateway error message, in fragments
MaxMsgLen == 2
\* longest conversation of a request
MaxMessages == 1

(* Program constants *)

\* default of the parameter maxRetries of _fetchWithRetry
maxRetries == 3

----------------------------------------------------------------------------
(* JavaScript values that the classification inspects *)

Undefined == [t |-> "undefined", n |-> 0, s |-> <<>>]
Num(n) == [t |-> "number", n |-> n, s |-> <<>>]
Str(s) == [t |-> "string", n |-> 0, s |-> s]

\* ToBoolean of a value: what `!v`, `v && ...` and `v || ...` test
Truthy(v) ==
  CASE v.t = "undefined" -> FALSE
    [] v.t = "number" -> v.n # 0
    [] v.t = "string" -> v.s # <<>>

\* `${v}` inside a template literal
ToText(v) ==
  CASE v.t = "undefined" -> <<"undefined">>
    [] v.t = "number" -> <<"#number">>
    [] v.t = "string" -> v.s

\* the texts searched for by the code that occur inside a longer fragment
Substrings(frag) ==
  CASE frag = "Credit limit exceeded: " -> {"Credit limit exceeded"}
    [] frag = "credit limit exceeded: " -> {"credit limit", "credit"}
    [] frag = "more credits" -> {"credit"}
    [] frag = "credits" -> {"credit"}
    [] frag = "Invalid API key" -> {"API key"}
    [] frag = "invalid api key" -> {"api key"}
    [] frag = "Authentication failed: Invalid API key" -> {"API key"}
    [] frag = "authentication failed: invalid api key" ->
         {"authentication", "api key"}
    [] frag = "authentication error: " -> {"authentication"}
    [] frag = "OpenRouter API key is not configured. Please add OPENROUTER_API_KEY to your .env file." ->
         {"API key"}
    [] frag = "openrouter api key is not configured. please add openrouter_api_key to your .env file." ->
         {"api key"}
    [] frag = "AI generation timeout" -> {"timeout"}
    [] frag = "ai generation timeout" -> {"timeout"}
    [] frag = "request timeout" -> {"timeout"}
    [] frag = "The operation was aborted due to timeout" -> {"timeout"}
    [] frag = "the operation was aborted due to timeout" -> {"timeout"}
    [] frag = "headers timeout error" -> {"timeout"}
    [] frag = "4096 tokens, but can only afford 1234" -> {"can only afford"}
    [] OTHER -> {}

\* String.prototype.includes, case-sensitive
Includes(str, frag) ==
  \E i \in 1..Len(str) : str[i] = frag \/ frag \in Substrings(str[i])

\* String.prototype.toLowerCase of one fragment
LowerCase(frag) ==
  CASE frag = "Credit limit exceeded: " -> "credit limit exceeded: "
    [] frag = "Token Limit" -> "token limit"
    [] frag = "Invalid API key" -> "invalid api key"
    [] frag = "API key" -> "api key"
    [] frag = "Authentication error: " -> "authentication error: "
    [] frag = "Authentication failed: Invalid API key" ->
         "authentication failed: invalid api key"
    [] frag = "Rate limit exceeded" -> "rate limit exceeded"
    [] frag = "OpenRouter server error" -> "openrouter server error"
    [] frag = "Unknown API error" -> "unknown api error"
    [] frag = "Failed to parse API response: " -> "failed to parse api response: "
    [] frag = "Failed to get chat completion: " -> "failed to get chat completion: "
    [] frag = "Network error while connecting to OpenRouter API: " ->
         "network error while connecting to openrouter api: "
    [] frag = "Invalid response structure: missing choices array" ->
         "invalid response structure: missing choices array"
    [] frag = "Unexpected token in JSON" -> "unexpected token in json"
    [] frag = "This operation was aborted" -> "this operation was aborted"
    [] frag = "read ECONNRESET" -> "read econnreset"
    [] frag = "AI generation timeout" -> "ai generation timeout"
    [] frag = "The operation was aborted due to timeout" ->
         "the operation was aborted due to timeout"
    [] frag = "Headers Timeout Error" -> "headers timeout error"
    [] frag = "Failed to parse AI-generated flashcards" ->
         "failed to parse ai-generated flashcards"
    [] frag = "Failed to create generated flashcards: " ->
         "failed to create generated flashcards: "
    [] frag = "OpenRouter API key is not configured. Please add OPENROUTER_API_KEY to your .env file." ->
         "openrouter api key is not configured. please add openrouter_api_key to your .env file."
    [] OTHER -> frag

\* String.prototype.toLowerCase
ToLowerCase(str) == [i \in 1..Len(str) |-> LowerCase(str[i])]

\* typeof of a JSON value, by its tag (typeof null and typeof [] are 'object')
TypeOf(tag) == IF tag \in {"null", "object", "array"} THEN "object" ELSE tag

\* ToBoolean of a JSON value, by its tag (numbers and strings in these
\* positions are the non-zero, non-empty ones)
TagTruthy(tag) == tag \notin {"undefined", "null"}

----------------------------------------------------------------------------
(* Inputs: requests, transport outcomes, response bodies *)

Fragments ==
  {"more credits", "can only afford", "token limit",
   "API key", "authentication", "authorized",
   "api key", "other text"}

RECURSIVE StringsUpTo(_)
StringsUpTo(k) ==
  IF k = 0 THEN {<<>>}
  ELSE LET shorter == StringsUpTo(k - 1)
       IN  shorter \cup {Append(s, f) : s \in shorter, f \in Fragments}

\* ChatMessage
ChatMessages == {[role |-> "user", content |-> "hello"]}

RECURSIVE ConversationsUpTo(_)
ConversationsUpTo(k) ==
  IF k = 0 THEN {<<>>}
  ELSE LET shorter == ConversationsUpTo(k - 1)
       IN  shorter \cup {Append(c, m) : c \in shorter, m \in ChatMessages}

\* the optional numeric fields of ChatCompletionOptions
NumericFields ==
  {"temperature", "max_tokens", "top_p", "frequency_penalty",
   "presence_penalty"}

\* ChatCompletionOptions: model may be empty, messages may be missing, every
\* optional field may be omitted; a supplied number may be 0; a supplied
\* response_format is an object, whose schema may refer to itself
RichOptions ==
  {o \in [model : {"", "m1"},
          hasMessages : BOOLEAN,
          messages : ConversationsUpTo(MaxMessages),
          response_format : {"undefined", "schema", "circular"},
          temperature : {Undefined, Num(0), Num(1)},
          max_tokens : {Undefined, Num(0), Num(1)},
          top_p : {Undefined, Num(0), Num(1)},
          frequency_penalty : {Undefined, Num(0), Num(1)},
          presence_penalty : {Undefined, Num(0), Num(1)}] :
     ~o.hasMessages => o.messages = <<>>}

\* the requests used where the optional fields play no part: none supplied,
\* or only a response_format
Options ==
  {o \in RichOptions :
     /\ \A f \in NumericFields : o[f] = Undefined
     /\ o.response_format = "circular" =>
          (o.model # "" /\ o.hasMessages /\ o.messages # <<>>)
     /\ o.response_format # "schema"}

NoOptions ==
  [model |-> "", hasMessages |-> FALSE, messages |-> <<>>,
   response_format |-> "undefined", temperature |-> Undefined,
   max_tokens |-> Undefined, top_p |-> Undefined,
   frequency_penalty |-> Undefined, presence_penalty |-> Undefined]

\* import.meta.env as the constructor reads it; "" is an unset variable
Envs ==
  [OPENROUTER_API_KEY : {"", "sk-server"},
   PUBLIC_OPENROUTER_API_KEY : {"", "sk-public"},
   APP_URL : {"", "https://app.example"},
   PUBLIC_APP_URL : {""},
   APP_TITLE : {"", "Flashcards"},
   PUBLIC_APP_TITLE : {""}]

\* HTTP statuses the gateway answers with
Statuses == {200, 400, 401, 429, 500, 503}

\* responseData.error
NoEnvelope ==
  [present |-> FALSE, code |-> Undefined, type |-> Undefined,
   message |-> Undefined]

Envelopes ==
  [present : {TRUE},
   code : {Undefined, Num(401), Num(402), Num(404), Str(<<"rate_limited">>)},
   type : {Undefined, Str(<<"invalid_request_error">>), Str(<<"server_error">>)},
   message : {Undefined} \cup {Str(s) : s \in StringsUpTo(MaxMsgLen)}]

\* responseData.choices: the JSON type of each position the code inspects
NoChoices ==
  [has |-> FALSE, t |-> "undefined", len |-> 0, first |-> "undefined",
   message |-> "undefined", content |-> "undefined", text |-> <<>>]

ChoicesOf(t, len, first, message, content, text) ==
  [has |-> TRUE, t |-> t, len |-> len, first |-> first,
   message |-> message, content |-> content, text |-> text]

ValidChoices == ChoicesOf("array", 1, "object", "object", "string", <<"ok">>)

ChoicesShapes ==
  {NoChoices, ValidChoices}
  \cup {ChoicesOf(t, 0, "undefined", "undefined", "undefined", <<>>) :
          t \in {"null", "string", "object", "array"}}
  \cup {ChoicesOf("array", 1, f, "undefined", "undefined", <<>>) :
          f \in {"null", "number", "object", "array"}}
  \cup {ChoicesOf("array", 1, "object", m, "undefined", <<>>) :
          m \in {"null", "string", "object", "array"}}
  \cup {ChoicesOf("array", 1, "object", "object", c, <<>>) :
          c \in {"null", "number", "object", "string"}}

\* a response body: text that does not parse, or a parsed JSON value
BodyOf(json, error, choices) ==
  [json |-> json, error |-> error, choices |-> choices]

Bodies ==
  {BodyOf(j, NoEnvelope, NoChoices) : j \in {"invalid", "null", "scalar", "array"}}
  \cup {BodyOf("object", NoEnvelope, c) : c \in ChoicesShapes}
  \cup {BodyOf("object", e, NoChoices) : e \in Envelopes}
  \cup {BodyOf("object", e, ValidChoices) :
          e \in {x \in Envelopes : x.message = Undefined}}

NoBody == BodyOf("none", NoEnvelope, NoChoices)

NoResponse == [present |-> FALSE, status |-> 0, body |-> NoBody]

\* exceptions that fetch rejects with
NoException == [name |-> "none", message |-> <<>>]

Exceptions ==
  {[name |-> "TypeError", message |-> <<"fetch failed">>],
   [name |-> "TypeError", message |-> <<"read ECONNRESET">>],
   [name |-> "AbortError", message |-> <<"This operation was aborted">>]}

----------------------------------------------------------------------------
(* Results of a call *)

Pending ==
  [kind |-> "pending", name |-> "", message |-> <<>>, status |-> Undefined,
   value |-> NoBody]

Return(body) ==
  [kind |-> "return", name |-> "", message |-> <<>>, status |-> Undefined,
   value |-> body]

Throw(name, message, status) ==
  [kind |-> "throw", name |-> name, message |-> message, status |-> status,
   value |-> NoBody]

\* the error classes and the status their constructors pass to super()
OpenRouterApiError(message, status) == Throw("OpenRouterApiError", message, status)
AuthenticationError(message) == Throw("AuthenticationError", message, Num(401))
RateLimitError(message) == Throw("RateLimitError", message, Num(429))
ServerError(message) == Throw("ServerError", message, Num(500))
NetworkError(message) == Throw("NetworkError", message, Undefined)
ParsingError(message) == Throw("ParsingError", message, Undefined)
ValidationError(message) == Throw("ValidationError", message, Undefined)

\* error instanceof OpenRouterApiError
InstanceOfOpenRouterApiError(r) ==
  r.name \in {"OpenRouterApiError", "AuthenticationError", "BadRequestError",
              "RateLimitError", "ServerError"}

----------------------------------------------------------------------------
(* constructor *)

\* a || b on strings
OrElse(a, b) == IF a # "" THEN a ELSE b

NoClient == [configured |-> FALSE, apiKey |-> "", appReferer |-> "", appTitle |-> ""]

\* variant: a key built into the code when none is configured
NewOpenRouterService_Fallback(e) ==
  LET apiKey == OrElse(e.OPENROUTER_API_KEY,
                       OrElse(e.PUBLIC_OPENROUTER_API_KEY, "sk-embedded"))
      referer == OrElse(e.APP_URL,
                        OrElse(e.PUBLIC_APP_URL, "http://localhost:3000"))
      title == OrElse(e.APP_TITLE, OrElse(e.PUBLIC_APP_TITLE, "10x App"))
  IN  [configured |-> TRUE, apiKey |-> apiKey, appReferer |-> referer,
       appTitle |-> title]

\* the instance the constructor yields; NoClient when it throws
NewOpenRouterService(e) ==
  LET apiKey == OrElse(e.OPENROUTER_API_KEY, e.PUBLIC_OPENROUTER_API_KEY)
      referer == OrElse(e.APP_URL,
                        OrElse(e.PUBLIC_APP_URL, "http://localhost:3000"))
      title == OrElse(e.APP_TITLE, OrElse(e.PUBLIC_APP_TITLE, "10x App"))
  IN  IF apiKey = "" THEN NoClient
      ELSE [configured |-> TRUE, apiKey |-> apiKey, appReferer |-> referer,
            appTitle |-> title]

\* the configuration of the client whose calls are followed
ServerEnv ==
  [OPENROUTER_API_KEY |-> "sk-server", PUBLIC_OPENROUTER_API_KEY |-> "",
   APP_URL |-> "", PUBLIC_APP_URL |-> "", APP_TITLE |-> "",
   PUBLIC_APP_TITLE |-> ""]

----------------------------------------------------------------------------
(* getChatCompletion: request body and headers *)

\* variant: an optional number tested for truth instead of for undefined
BuildBody_Truthy(o) ==
  LET keys == {"model", "messages"}
              \cup (IF o.response_format # "undefined"
                    THEN {"response_format"} ELSE {})
              \cup {f \in NumericFields : Truthy(o[f])}
  IN  [k \in keys |->
        CASE k = "model" -> Str(<<o.model>>)
          [] k = "messages" ->
               [t |-> "array", n |-> Len(o.messages), s |-> <<>>]
          [] k = "response_format" ->
               [t |-> "object", n |-> 0, s |-> <<o.response_format>>]
          [] OTHER -> o[k]]

\* the object `body`: model, messages and the optional fields supplied
BuildBody(o) ==
  LET keys == {"model", "messages"}
              \cup (IF o.response_format # "undefined"
                    THEN {"response_format"} ELSE {})
              \cup {f \in NumericFields : o[f] # Undefined}
  IN  [k \in keys |->
        CASE k = "model" -> Str(<<o.model>>)
          [] k = "messages" ->
               [t |-> "array", n |-> Len(o.messages), s |-> <<>>]
          [] k = "response_format" ->
               [t |-> "object", n |-> 0, s |-> <<o.response_format>>]
          [] OTHER -> o[k]]

\* JSON.stringify(body) throws on an object that refers to itself
StringifyThrows(body) ==
  "response_format" \in DOMAIN body /\ body["response_format"].s = <<"circular">>

\* JSON.stringify(body): the members whose value is undefined are left out
Stringify(body) ==
  [k \in {x \in DOMAIN body : body[x].t # "undefined"} |-> body[k]]

NoRequest ==
  [sent |-> FALSE, url |-> "", authorization |-> <<>>, referer |-> "",
   title |-> "", contentType |-> "", body |-> [k \in {} |-> Undefined]]

\* _request: the url and the headers that go with the serialized body
BuildRequest(client, text) ==
  [sent |-> TRUE,
   url |-> "https://openrouter.ai/api/v1/chat/completions",
   authorization |-> <<"Bearer ", client.apiKey>>,
   referer |-> client.appReferer,
   title |-> client.appTitle,
   contentType |-> "application/json",
   body |-> text]

----------------------------------------------------------------------------
(* getChatCompletion: local validation *)

\* variant: the check of messages forgotten
ValidateOptions_ModelOnly(o) ==
  IF o.model = "" THEN "Model is required" ELSE ""

\* the two checks made before any network activity; "" when both pass
ValidateOptions(o) ==
  IF o.model = "" THEN "Model is required"
  ELSE IF ~o.hasMessages \/ Len(o.messages) = 0
       THEN "At least one message is required"
       ELSE ""

----------------------------------------------------------------------------
(* _fetchWithRetry: the two retry conditions *)

\* variant: every error status retried
ShouldRetryResponse_Any4xx(status, count) ==
  status >= 400 /\ status < 600 /\ count < maxRetries

\* variant: a rate-limited response retried like a server error
ShouldRetryResponse_RateLimited(status, count) ==
  (status = 429 \/ (status >= 500 /\ status < 600)) /\ count < maxRetries

\* variant: one more retry granted to a 5xx response than to an exception
ShouldRetryResponse_OwnBudget(status, count) ==
  status >= 500 /\ status < 600 /\ count < maxRetries + 1

\* a response is retried only for a server error, while retries are left
ShouldRetryResponse(status, count) ==
  status >= 500 /\ status < 600 /\ count < maxRetries

\* variant: the retry budget off by one
ShouldRetryError_OffByOne(error, count) ==
  error.name = "TypeError" /\ count <= maxRetries

\* a rejected fetch is retried only for a TypeError, while retries are left
ShouldRetryError(error, count) ==
  error.name = "TypeError" /\ count < maxRetries

\* variant: the delay grows by a second per retry
BackoffDelay_Linear(count, jitter) ==
  [base |-> (count + 1) * 1000, jitter |-> jitter]

\* Math.pow(2, retryCount) * 1000 + Math.random() * 1000, the two terms apart
BackoffDelay(count, jitter) ==
  [base |-> (2 ^ count) * 1000, jitter |-> jitter]

NoDelay == [base |-> 0, jitter |-> 0]

\* Math.random() * 1000, in whole milliseconds
Jitters == {0, 500, 999}

\* variant: the exception passed on as it is
RequestCatch_Rethrow(error) ==
  Throw(error.name, error.message, Undefined)

\* _request: what its catch makes of the exception _fetchWithRetry rejects with
RequestCatch(error) ==
  NetworkError(<<"Network error while connecting to OpenRouter API: ">>
               \o error.message)

\* getChatCompletion: its catch re-throws the typed errors and wraps the rest
GetChatCompletionCatch(r) ==
  IF InstanceOfOpenRouterApiError(r)
     \/ r.name \in {"ValidationError", "NetworkError", "ParsingError"}
  THEN r
  ELSE Throw("Error", <<"Failed to get chat completion: ">> \o r.message,
             Undefined)

----------------------------------------------------------------------------
(* _handleApiResponse *)

\* variant: one of the credit phrases forgotten
IsCreditError_NoAfford(e) ==
  \/ e.code = Num(402)
  \/ /\ Truthy(e.message)
     /\ \/ Includes(e.message.s, "more credits")
        \/ Includes(e.message.s, "token limit")

\* payment / credit limits
IsCreditError(e) ==
  \/ e.code = Num(402)
  \/ /\ Truthy(e.message)
     /\ \/ Includes(e.message.s, "more credits")
        \/ Includes(e.message.s, "can only afford")
        \/ Includes(e.message.s, "token limit")

\* variant: the error type not looked at
IsAuthError_NoType(e) ==
  \/ e.code = Num(401)
  \/ /\ Truthy(e.message)
     /\ \/ Includes(e.message.s, "API key")
        \/ Includes(e.message.s, "authentication")
        \/ Includes(e.message.s, "authorized")

\* authentication errors
IsAuthError(e) ==
  \/ e.code = Num(401)
  \/ e.type = Str(<<"invalid_request_error">>)
  \/ /\ Truthy(e.message)
     /\ \/ Includes(e.message.s, "API key")
        \/ Includes(e.message.s, "authentication")
        \/ Includes(e.message.s, "authorized")

\* variant: the authentication rule tried before the credit rule
ClassifyEnvelope_AuthFirst(e) ==
  IF IsAuthError(e)
  THEN AuthenticationError(<<"Authentication error: ">> \o ToText(e.message))
  ELSE IF IsCreditError(e)
  THEN RateLimitError(<<"Credit limit exceeded: ">> \o ToText(e.message))
  ELSE OpenRouterApiError(
         IF Truthy(e.message) THEN e.message.s ELSE <<"Unknown API error">>,
         IF Truthy(e.code) THEN e.code ELSE Num(400))

\* the error thrown for an error object in the parsed body
ClassifyEnvelope(e) ==
  IF IsCreditError(e)
  THEN RateLimitError(<<"Credit limit exceeded: ">> \o ToText(e.message))
  ELSE IF IsAuthError(e)
  THEN AuthenticationError(<<"Authentication error: ">> \o ToText(e.message))
  ELSE OpenRouterApiError(
         IF Truthy(e.message) THEN e.message.s ELSE <<"Unknown API error">>,
         IF Truthy(e.code) THEN e.code ELSE Num(400))

\* isChatCompletionResponse: obj && typeof obj === 'object' && 'choices' in obj
isChatCompletionResponse(body) ==
  body.json \in {"object", "array"} /\ body.choices.has

\* variant: the type of content not checked
ValidateChoices_AnyContent(body) ==
  LET c == body.choices IN
  IF ~TagTruthy(c.t) \/ c.t # "array" \/ c.len = 0
  THEN ParsingError(<<"Invalid response structure: missing choices array">>)
  ELSE IF ~TagTruthy(c.first) \/ TypeOf(c.first) # "object"
  THEN ParsingError(<<"Invalid response structure: first choice is invalid">>)
  ELSE IF ~TagTruthy(c.message) \/ TypeOf(c.message) # "object"
  THEN ParsingError(<<"Invalid response structure: message is missing or invalid">>)
  ELSE Return(body)

\* the structure checks made on a body that has a choices key
ValidateChoices(body) ==
  LET c == body.choices IN
  IF ~TagTruthy(c.t) \/ c.t # "array" \/ c.len = 0
  THEN ParsingError(<<"Invalid response structure: missing choices array">>)
  ELSE IF ~TagTruthy(c.first) \/ TypeOf(c.first) # "object"
  THEN ParsingError(<<"Invalid response structure: first choice is invalid">>)
  ELSE IF ~TagTruthy(c.message) \/ TypeOf(c.message) # "object"
  THEN ParsingError(<<"Invalid response structure: message is missing or invalid">>)
  ELSE IF TypeOf(c.content) # "string"
  THEN ParsingError(<<"Invalid response structure: content is not a string">>)
  ELSE Return(body)

\* the try block: parse, look for an error object, validate, return
HandleTry(body) ==
  CASE body.json = "invalid" ->
         Throw("SyntaxError", <<"Unexpected token in JSON">>, Undefined)
    [] body.json = "null" ->
         Throw("TypeError", <<"Cannot read properties of null">>, Undefined)
    [] OTHER ->
         IF body.error.present THEN ClassifyEnvelope(body.error)
         ELSE IF isChatCompletionResponse(body) THEN ValidateChoices(body)
         ELSE Return(body)

\* variant: status 429 not looked at in the catch block
HandleCatch_No429(error, status) ==
  IF error.name = "SyntaxError" /\ status = 401
  THEN AuthenticationError(<<"Authentication failed: Invalid API key">>)
  ELSE IF InstanceOfOpenRouterApiError(error)
  THEN error
  ELSE IF status = 401
  THEN AuthenticationError(<<"Authentication failed: Invalid API key">>)
  ELSE IF status >= 500
  THEN ServerError(<<"OpenRouter server error">>)
  ELSE ParsingError(<<"Failed to parse API response: ">> \o error.message)

\* the catch block: what becomes of an error thrown in the try block
HandleCatch(error, status) ==
  IF error.name = "SyntaxError" /\ status = 401
  THEN AuthenticationError(<<"Authentication failed: Invalid API key">>)
  ELSE IF InstanceOfOpenRouterApiError(error)
  THEN error
  ELSE IF status = 401
  THEN AuthenticationError(<<"Authentication failed: Invalid API key">>)
  ELSE IF status = 429
  THEN RateLimitError(<<"Rate limit exceeded">>)
  ELSE IF status >= 500
  THEN ServerError(<<"OpenRouter server error">>)
  ELSE ParsingError(<<"Failed to parse API response: ">> \o error.message)

_handleApiResponse(resp) ==
  LET tried == HandleTry(resp.body) IN
  IF tried.kind = "return" THEN tried ELSE HandleCatch(tried, resp.status)

----------------------------------------------------------------------------
(* FlashcardService.generateFlashcards and POST /api/flashcards/generate *)

\* the answer of the endpoint: the status and the fields error, message and
\* code of its JSON body
NoHttp ==
  [status |-> 0, error |-> <<>>, message |-> <<>>, code |-> "",
   requestedTokens |-> "null", availableTokens |-> "null"]

Http(status, error, message, code) ==
  [status |-> status, error |-> error, message |-> message, code |-> code,
   requestedTokens |-> "null", availableTokens |-> "null"]

\* error.message.match(/(\d+) tokens, but can only afford (\d+)/) on one
\* fragment: the two groups, or nothing
MatchTokens(frag) ==
  IF frag = "4096 tokens, but can only afford 1234"
  THEN <<"4096", "1234">>
  ELSE <<>>

\* the first match of the expression in a text
RECURSIVE TokenMatch(_)
TokenMatch(str) ==
  IF str = <<>> THEN <<>>
  ELSE IF MatchTokens(Head(str)) # <<>> THEN MatchTokens(Head(str))
  ELSE TokenMatch(Tail(str))

\* the 402 answer, with the token counts when the message has them
CreditHttp(message) ==
  [status |-> 402, error |-> <<"OpenRouter credit limit exceeded.">>,
   message |-> message, code |-> "CREDIT_LIMIT_EXCEEDED",
   requestedTokens |->
     IF TokenMatch(message) # <<>> THEN TokenMatch(message)[1] ELSE "null",
   availableTokens |->
     IF TokenMatch(message) # <<>> THEN TokenMatch(message)[2] ELSE "null"]

\* generateData.input: absent or empty, a text, a text of more than 10000
\* characters; "malformed" is a request body that request.json() rejects
Inputs == {"missing", "text", "too long", "malformed"}

\* the request generateFlashcards makes: default model, system and user
\* message, temperature 0.3 (in tenths), a JSON schema as response_format
ServiceOptions ==
  [model |-> "openai/gpt-4o", hasMessages |-> TRUE,
   messages |-> <<[role |-> "system", content |-> "prompt"],
                  [role |-> "user", content |-> "text"]>>,
   response_format |-> "schema", temperature |-> Num(3),
   max_tokens |-> Undefined, top_p |-> Undefined,
   frequency_penalty |-> Undefined, presence_penalty |-> Undefined]

\* whether the checks on the completion and JSON.parse of its content yield
\* a non-empty array of cards with front and back
CardsParsed(value) ==
  LET c == value.choices IN
  /\ value.json \in {"object", "array"}
  /\ c.has /\ TagTruthy(c.t) /\ c.t = "array" /\ c.len > 0
  /\ TagTruthy(c.first) /\ TagTruthy(c.message)
  /\ TagTruthy(c.content) /\ c.text # <<>>
  /\ c.content = "string" /\ c.text = <<"[cards]">>

\* variant: a rate limit error passed on as it is
ServiceCatch_KeepRateLimit(error) ==
  LET errorMsg == ToLowerCase(error.message) IN
  IF \/ Includes(errorMsg, "credit limit")
     \/ Includes(errorMsg, "more credits")
     \/ Includes(errorMsg, "can only afford")
     \/ Includes(errorMsg, "token limit")
  THEN error
  ELSE IF Includes(errorMsg, "timeout")
  THEN Throw("Error", <<"AI generation timeout">>, Undefined)
  ELSE error

\* variant: every error passed on as it is
ServiceCatch_Rethrow(error) == error

\* generateFlashcards, catch (aiError): the error it throws on
ServiceCatch(error) ==
  LET errorMsg == ToLowerCase(error.message) IN
  IF \/ Includes(errorMsg, "credit limit")
     \/ Includes(errorMsg, "more credits")
     \/ Includes(errorMsg, "can only afford")
     \/ Includes(errorMsg, "token limit")
  THEN error
  ELSE IF Includes(errorMsg, "timeout") \/ error.name = "RateLimitError"
  THEN Throw("Error", <<"AI generation timeout">>, Undefined)
  ELSE error

\* error.status >= 500 in JavaScript: false for undefined and for a word
StatusAtLeast500(status) == status.t = "number" /\ status.n >= 500

\* POST, catch (error): the answer to an error thrown by the service
EndpointCatch(error) ==
  LET errorMsg == ToLowerCase(error.message) IN
  IF Includes(error.message, "timeout")
  THEN Http(504, <<"AI generation timed out. Please try again with a shorter input.">>,
            <<>>, "")
  ELSE IF /\ error.name = "RateLimitError"
          /\ Includes(error.message, "Credit limit exceeded")
  THEN CreditHttp(error.message)
  ELSE IF \/ Includes(errorMsg, "credit")
          \/ Includes(errorMsg, "more credits")
          \/ Includes(errorMsg, "can only afford")
          \/ Includes(errorMsg, "token limit")
  THEN CreditHttp(error.message)
  ELSE IF error.name = "AuthenticationError"
  THEN Http(500, <<"Authentication error with AI service. Please contact support.">>,
            <<>>, "")
  ELSE IF error.name = "BadRequestError"
  THEN Http(400, <<"Invalid request to AI service: ">> \o error.message, <<>>, "")
  ELSE IF error.name = "NetworkError"
  THEN Http(503, <<"Network error while connecting to AI service. Please try again.">>,
            <<>>, "")
  ELSE IF error.name = "RateLimitError"
  THEN Http(429, <<"AI service rate limit exceeded.">>,
            <<"The service is currently receiving too many requests. Please try again later.">>,
            "RATE_LIMIT_EXCEEDED")
  ELSE IF error.name = "ParsingError"
  THEN Http(500, <<"Failed to parse AI response: ">> \o error.message, <<>>, "")
  ELSE IF InstanceOfOpenRouterApiError(error)
  THEN Http(IF StatusAtLeast500(error.status) THEN 502 ELSE 500,
            <<"AI service error (">> \o ToText(error.status) \o <<"): ">>
              \o error.message,
            <<>>, "")
  ELSE IF Includes(error.message, "Failed to parse AI-generated flashcards")
  THEN Http(500, <<"The AI generated a response in an incorrect format. Please try again.">>,
            <<>>, "")
  ELSE Http(500, <<"Internal Server Error">>, error.message, "")

\* configurations of the deployment: with the server's key, without any
GenerateEnvs ==
  {ServerEnv,
   [OPENROUTER_API_KEY |-> "", PUBLIC_OPENROUTER_API_KEY |-> "",
    APP_URL |-> "", PUBLIC_APP_URL |-> "", APP_TITLE |-> "",
    PUBLIC_APP_TITLE |-> ""]}

\* gateway messages with the words the service and the endpoint look for
GenerateFragments ==
  {"Invalid API key", "Token Limit", "credits", "request timeout",
   "more credits", "can only afford", "other text",
   "4096 tokens, but can only afford 1234"}

GenerateEnvelopes ==
  [present : {TRUE},
   code : {Undefined, Num(401), Num(402), Num(503)},
   type : {Undefined},
   message : {Undefined} \cup {Str(<<f>>) : f \in GenerateFragments}]

GenerateStatuses == {200, 401, 429, 500}

\* exceptions that fetch rejects with, among them two that report a timeout
GenerateExceptions ==
  Exceptions
  \cup {[name |-> "TimeoutError",
          message |-> <<"The operation was aborted due to timeout">>],
         [name |-> "TypeError", message |-> <<"Headers Timeout Error">>]}

\* the bodies the gateway answers a generation request with
GenerateBodies ==
  {BodyOf("invalid", NoEnvelope, NoChoices),
   BodyOf("object", NoEnvelope, NoChoices)}
  \cup {BodyOf("object", NoEnvelope,
               ChoicesOf("array", 1, "object", "object", "string", <<t>>)) :
          t \in {"ok", "[cards]", "[]"}}
  \cup {BodyOf("object", e, NoChoices) : e \in GenerateEnvelopes}

----------------------------------------------------------------------------
(* POST /api/flashcards and the review of a flashcard *)

\* a field of a request body: absent, the empty string, a text, a text longer
\* than the limit of the field, or a number
FieldValues == {"undefined", "", "text", "#long", "#number"}

\* request bodies of POST /api/flashcards: an object, or null
Payloads ==
  [t : {"object", "null"},
   front : FieldValues,
   back : FieldValues,
   metoda_tworzna : {"undefined", "manual", "AI", "ai", "#number"},
   status_recenzji : {"undefined", "pending", "accepted", "rejected",
                      "archived"}]

NoPayload ==
  [t |-> "null", front |-> "undefined", back |-> "undefined",
   metoda_tworzna |-> "undefined", status_recenzji |-> "undefined"]

\* obj.name in JavaScript: undefined for a property the object does not have
Field(obj, name) == IF name \in DOMAIN obj THEN obj[name] ELSE "undefined"

\* validateSingleFlashcard: valid or not, and the data it hands on
validateSingleFlashcard(data) ==
  LET textOk(v) == v \notin {"undefined", "", "#number", "#long"}
      methodOk == data.metoda_tworzna \in {"manual", "AI"}
  IN  IF data.t # "object"
      THEN [valid |-> FALSE, data |-> <<>>]
      ELSE IF textOk(data.front) /\ textOk(data.back) /\ methodOk
      THEN [valid |-> TRUE,
            data |-> [front |-> data.front, back |-> data.back,
                      metoda_tworzna |-> data.metoda_tworzna]]
      ELSE [valid |-> FALSE, data |-> <<>>]

\* POST /api/flashcards: status_recenzji of the record made of a validated
\* flashcard
CreateStatus(flashcard) ==
  IF /\ Field(flashcard, "status_recenzji") # "undefined"
     /\ Field(flashcard, "status_recenzji") \in {"pending", "accepted", "rejected"}
  THEN Field(flashcard, "status_recenzji")
  ELSE IF flashcard.metoda_tworzna = "manual" THEN "accepted"
  ELSE "pending"

\* POST /api/flashcards: metoda_tworzna of the record
CreateMethod(flashcard) ==
  IF flashcard.metoda_tworzna = "AI" THEN "ai" ELSE "manual"

\* the flashcard: no row yet, or a row
NoCard == [exists |-> FALSE, status |-> "", front |-> "", back |-> "", method |-> ""]

Card(status, front, back, method) ==
  [exists |-> TRUE, status |-> status, front |-> front, back |-> back,
   method |-> method]

\* the requests that review the card at the same time
Reviewers == {1, 2}

\* FlashcardReviewCommand: action, front and back may be absent
ReviewCommands ==
  [action : {"undefined", "accept", "reject", "edit", "archive"},
   front : {"undefined", "", "front2"},
   back : {"undefined", "back2"}]

NoCommand == [action |-> "undefined", front |-> "undefined", back |-> "undefined"]

\* the record passed to update(): "-" for a column it does not set
NoUpdate == [status |-> "-", front |-> "-", back |-> "-"]

\* a review: which code runs it ("mock": [id]/review.ts, "endpoint": the
\* handler on the database, "service": reviewFlashcard), where it is, its
\* command, the update it prepared, and its answer (an HTTP status; for the
\* service 200 for a returned card and 404 for null)
NoReview ==
  [api |-> "none", pc |-> "start", command |-> NoCommand, update |-> NoUpdate,
   answer |-> 0]

\* update(updateRecord) applied to the row
ApplyUpdate(row, u) ==
  [row EXCEPT !.status = IF u.status = "-" THEN @ ELSE u.status,
              !.front = IF u.front = "-" THEN @ ELSE u.front,
              !.back = IF u.back = "-" THEN @ ELSE u.back]

\* status !== 'pending' && status !== 'oczekujacy' (the Polish word for
\* pending, written here without its diacritic)
AlreadyReviewed(status) == status \notin {"pending", "oczekujacy"}

\* !text of an edit: absent or empty
Blank(text) == text \in {"undefined", ""}

----------------------------------------------------------------------------
(* State *)

VARIABLES
  pc,          \* where the call is: new, unconfigured, idle, fetching,
               \* backoff, handle, done
  env,         \* import.meta.env: the configuration of the process
  client,      \* the OpenRouterService instance, once constructed
  options,     \* the request of the call
  request,     \* what the call hands to fetch: url, headers, serialized body
  retryCount,  \* parameter retryCount of the current _fetchWithRetry frame
  fetchCount,  \* number of times fetch was invoked by the call
  inFlight,    \* number of fetches invoked and not yet settled
  timer,       \* the backoff timer that is running, if one is
  delays,      \* the backoff delays that have elapsed, in order
  response,    \* the Response the last fetch resolved with, if it did
  thrown,      \* the exception the last fetch rejected with, if it did
  attempts,    \* the transport's record of the call: how each fetch ended
  result,      \* what the call returned or threw
  generation,  \* status of the generation record, "none" when there is none
  stored,      \* whether the generated flashcards are in the database
  serviceResult, \* what generateFlashcards returned or threw
  http,        \* the Response of POST /api/flashcards/generate
  payload,     \* the body of a request to POST /api/flashcards
  card,        \* the flashcard: its row in the store, once there is one
  created,     \* the HTTP status POST /api/flashcards answered with, 0 before
  review       \* the reviews of the flashcard under way, by request

clientVars == <<env, client>>
retryVars == <<retryCount, fetchCount, inFlight>>
timerVars == <<timer, delays>>
transportVars == <<response, thrown, attempts>>
serviceVars == <<generation, stored, serviceResult, http>>
storeVars == <<payload, card, created, review>>
callVars ==
  <<pc, clientVars, options, request, retryVars, timerVars, transportVars,
    result, serviceVars>>

vars ==
  <<pc, env, client, options, request, retryCount, fetchCount, inFlight, timer,
    delays, response, thrown, attempts, result, generation, stored,
    serviceResult, http, payload, card, created, review>>

\* entries of the transport's record
Responded(status) == [kind |-> "response", status |-> status, name |-> ""]
Rejected(error) == [kind |-> "exception", status |-> 0, name |-> error.name]

\* nothing has been called yet
NothingCalled ==
  /\ options = NoOptions
  /\ request = NoRequest
  /\ retryCount = 0
  /\ fetchCount = 0
  /\ inFlight = 0
  /\ timer = NoDelay
  /\ delays = <<>>
  /\ response = NoResponse
  /\ thrown = NoException
  /\ attempts = <<>>
  /\ result = Pending
  /\ generation = "none"
  /\ stored = FALSE
  /\ serviceResult = Pending
  /\ http = NoHttp

\* no flashcard yet, and no request about one
NothingStored ==
  /\ payload = NoPayload
  /\ card = NoCard
  /\ created = 0
  /\ review = [p \in Reviewers |-> NoReview]

\* a constructed client, before a call
Init ==
  /\ pc = "idle"
  /\ env = ServerEnv
  /\ client = NewOpenRouterService(ServerEnv)
  /\ NothingCalled
  /\ NothingStored

\* before the client is constructed
InitNew ==
  /\ pc = "new"
  /\ env \in Envs
  /\ client = NoClient
  /\ NothingCalled
  /\ NothingStored

\* new OpenRouterService(): throws when no key is configured
Construct ==
  /\ pc = "new"
  /\ UNCHANGED <<serviceVars, storeVars>>
  /\ client' = NewOpenRouterService(env)
  /\ IF NewOpenRouterService(env).configured
     THEN /\ pc' = "idle"
          /\ UNCHANGED result
     ELSE /\ pc' = "unconfigured"
          /\ result' = Throw("Error",
                             <<"OpenRouter API key is not configured. Please add OPENROUTER_API_KEY to your .env file.">>,
                             Undefined)
  /\ UNCHANGED <<env, options, request, retryVars, timerVars, transportVars>>

\* getChatCompletion is called: validation, the body is built and serialized,
\* then the first fetch is issued
GetChatCompletion(o) ==
  /\ pc = "idle"
  /\ UNCHANGED <<serviceVars, storeVars>>
  /\ client.configured
  /\ options' = o
  /\ IF ValidateOptions(o) # ""
     THEN /\ result' = ValidationError(<<ValidateOptions(o)>>)
          /\ pc' = "done"
          /\ UNCHANGED <<request, retryVars>>
     ELSE IF StringifyThrows(BuildBody(o))
     THEN /\ result' = GetChatCompletionCatch(
                         Throw("TypeError",
                               <<"Converting circular structure to JSON">>,
                               Undefined))
          /\ pc' = "done"
          /\ UNCHANGED <<request, retryVars>>
     ELSE /\ request' = BuildRequest(client, Stringify(BuildBody(o)))
          /\ pc' = "fetching"
          /\ retryCount' = 0
          /\ fetchCount' = fetchCount + 1
          /\ inFlight' = inFlight + 1
          /\ UNCHANGED result
  /\ UNCHANGED <<clientVars, timerVars, transportVars>>

\* the fetch in flight resolves with a response
FetchResolves(status, body, jitter) ==
  /\ pc = "fetching"
  /\ UNCHANGED <<serviceVars, storeVars>>
  /\ inFlight' = inFlight - 1
  /\ response' = [present |-> TRUE, status |-> status, body |-> body]
  /\ thrown' = NoException
  /\ attempts' = Append(attempts, Responded(status))
  /\ IF ShouldRetryResponse(status, retryCount)
     THEN /\ timer' = BackoffDelay(retryCount, jitter)
          /\ pc' = "backoff"
     ELSE /\ pc' = "handle"
          /\ UNCHANGED timer
  /\ UNCHANGED <<clientVars, options, request, retryCount, fetchCount, delays,
                 result>>

\* the fetch in flight rejects
FetchRejects(error, jitter) ==
  /\ pc = "fetching"
  /\ UNCHANGED <<serviceVars, storeVars>>
  /\ inFlight' = inFlight - 1
  /\ thrown' = error
  /\ response' = NoResponse
  /\ attempts' = Append(attempts, Rejected(error))
  /\ IF ShouldRetryError(error, retryCount)
     THEN /\ timer' = BackoffDelay(retryCount, jitter)
          /\ pc' = "backoff"
          /\ UNCHANGED result
     ELSE /\ pc' = "done"
          /\ result' = GetChatCompletionCatch(RequestCatch(error))
          /\ UNCHANGED timer
  /\ UNCHANGED <<clientVars, options, request, retryCount, fetchCount, delays>>

\* variant: the next attempt issued while the last one is still in flight
BackoffElapsed_Speculative ==
  /\ pc = "fetching"
  /\ UNCHANGED <<serviceVars, storeVars>>
  /\ retryCount < maxRetries
  /\ retryCount' = retryCount + 1
  /\ fetchCount' = fetchCount + 1
  /\ inFlight' = inFlight + 1
  /\ UNCHANGED <<pc, clientVars, options, request, timerVars, transportVars,
                 result>>

\* variant: the promise of the backoff timer never resolved
BackoffElapsed_NeverResolved ==
  /\ pc = "backoff"
  /\ timer.base < 0
  /\ UNCHANGED vars

\* the backoff timer fires: the recursive call issues the next fetch; the
\* outcome of the attempt before it is out of scope in the new frame
BackoffElapsed ==
  /\ pc = "backoff"
  /\ UNCHANGED <<serviceVars, storeVars>>
  /\ delays' = Append(delays, timer)
  /\ timer' = NoDelay
  /\ retryCount' = retryCount + 1
  /\ fetchCount' = fetchCount + 1
  /\ inFlight' = inFlight + 1
  /\ response' = NoResponse
  /\ thrown' = NoException
  /\ pc' = "fetching"
  /\ UNCHANGED <<clientVars, options, request, attempts, result>>

\* the response that _request returned is read and classified
HandleApiResponse ==
  /\ pc = "handle"
  /\ UNCHANGED <<serviceVars, storeVars>>
  /\ result' = _handleApiResponse(response)
  /\ pc' = "done"
  /\ UNCHANGED <<clientVars, options, request, retryVars, timerVars,
                 transportVars>>

\* one call of a constructed client, every response body, no jitter
Next ==
  \/ pc = "idle" /\ \E o \in Options : GetChatCompletion(o)
  \/ pc = "fetching" /\ \E st \in Statuses, b \in Bodies : FetchResolves(st, b, 0)
  \/ pc = "fetching" /\ \E e \in Exceptions : FetchRejects(e, 0)
  \/ BackoffElapsed
  \/ HandleApiResponse

Spec == Init /\ [][Next]_vars

\* construction and request building: every configuration, every combination
\* of optional fields, a gateway that answers with a completion
NextRequest ==
  \/ Construct
  \/ pc = "idle" /\ \E o \in RichOptions : GetChatCompletion(o)
  \/ pc = "fetching" /\ FetchResolves(200, BodyOf("object", NoEnvelope, ValidChoices), 0)
  \/ HandleApiResponse

SpecRequest == InitNew /\ [][NextRequest]_vars

\* the bodies that suffice to follow the retries
RetryBodies ==
  {BodyOf("invalid", NoEnvelope, NoChoices),
   BodyOf("object", NoEnvelope, ValidChoices)}

\* the retry loop: every status, every exception, every jitter
NextRetry ==
  \/ pc = "idle" /\ \E o \in Options : GetChatCompletion(o)
  \/ pc = "fetching" /\ \E st \in Statuses, b \in RetryBodies, j \in Jitters :
                          FetchResolves(st, b, j)
  \/ pc = "fetching" /\ \E e \in Exceptions, j \in Jitters : FetchRejects(e, j)
  \/ BackoffElapsed
  \/ HandleApiResponse

SpecRetry == Init /\ [][NextRetry]_vars

\* the fetch in flight settles, one way or the other
FetchSettles ==
  /\ pc = "fetching"
  /\ \/ \E st \in Statuses, b \in RetryBodies, j \in Jitters :
          FetchResolves(st, b, j)
     \/ \E e \in Exceptions, j \in Jitters : FetchRejects(e, j)

\* the retry loop under the assumption that every fetch settles, every
\* backoff timer fires and every body read completes
SpecRetryFair ==
  /\ Init
  /\ [][NextRetry]_vars
  /\ WF_vars(FetchSettles)
  /\ WF_vars(BackoffElapsed)
  /\ WF_vars(HandleApiResponse)

\* a request arrives at POST /api/flashcards/generate
InitGenerate ==
  /\ pc = "request"
  /\ env \in GenerateEnvs
  /\ client = NoClient
  /\ NothingCalled
  /\ NothingStored

\* POST: the body is read and the input validated, then the service is called
Post(input) ==
  /\ pc = "request"
  /\ IF input = "malformed"
     THEN /\ http' = EndpointCatch(Throw("SyntaxError",
                                         <<"Unexpected token in JSON">>,
                                         Undefined))
          /\ pc' = "responded"
     ELSE IF input = "missing"
     THEN /\ http' = Http(400, <<"Input text is required">>, <<>>, "")
          /\ pc' = "responded"
     ELSE IF input = "too long"
     THEN /\ http' = Http(400, <<"Input text must be at most 10,000 characters">>,
                          <<>>, "")
          /\ pc' = "responded"
     ELSE /\ pc' = "insertGeneration"
          /\ UNCHANGED http
  /\ UNCHANGED <<storeVars, clientVars, options, request, retryVars,
                 timerVars,
                 transportVars, result, generation, stored, serviceResult>>

\* generateFlashcards: the generation record is inserted, or the insert is
\* refused and the call goes on without a record
InsertGeneration(ok) ==
  /\ pc = "insertGeneration"
  /\ generation' = IF ok THEN "processing" ELSE "none"
  /\ pc' = "new"
  /\ UNCHANGED <<storeVars, clientVars, options, request, retryVars,
                 timerVars,
                 transportVars, result, stored, serviceResult, http>>

\* the status the record has after update({status}) under `if (finalGenerationId)`
Updated(status) == IF generation # "none" THEN status ELSE generation

\* generateFlashcards: the constructor threw, outside the inner try; the outer
\* catch logs and rethrows
OuterCatch ==
  /\ pc = "unconfigured"
  /\ serviceResult' = result
  /\ pc' = "respond"
  /\ UNCHANGED <<storeVars, clientVars, options, request, retryVars,
                 timerVars,
                 transportVars, result, generation, stored, http>>

\* generateFlashcards, catch (aiError) of a failed getChatCompletion
AiCatch ==
  /\ pc = "done"
  /\ result.kind = "throw"
  /\ generation' = Updated("failed")
  /\ serviceResult' = ServiceCatch(result)
  /\ pc' = "respond"
  /\ UNCHANGED <<storeVars, clientVars, options, request, retryVars,
                 timerVars,
                 transportVars, result, stored, http>>

\* generateFlashcards: the completion is parsed into cards and the record
\* set to completed; a completion that does not parse goes to catch (aiError)
ParseCompletion ==
  /\ pc = "done"
  /\ result.kind = "return"
  /\ IF CardsParsed(result.value)
     THEN /\ generation' = Updated("completed")
          /\ pc' = "insertFlashcards"
          /\ UNCHANGED serviceResult
     ELSE /\ generation' = Updated("failed")
          /\ serviceResult' =
               ServiceCatch(Throw("Error",
                                  <<"Failed to parse AI-generated flashcards">>,
                                  Undefined))
          /\ pc' = "respond"
  /\ UNCHANGED <<storeVars, clientVars, options, request, retryVars,
                 timerVars,
                 transportVars, result, stored, http>>

\* generateFlashcards: the cards are inserted; a database error or an empty
\* result is thrown inside the inner try and goes to catch (aiError)
InsertFlashcards(outcome) ==
  /\ pc = "insertFlashcards"
  /\ IF outcome = "ok"
     THEN /\ stored' = TRUE
          /\ serviceResult' = Return(result.value)
          /\ UNCHANGED generation
     ELSE /\ generation' = Updated("failed")
          /\ serviceResult' =
               ServiceCatch(
                 IF outcome = "error"
                 THEN Throw("Error",
                            <<"Failed to create generated flashcards: ",
                              "database error">>, Undefined)
                 ELSE Throw("Error", <<"No flashcards were created">>,
                            Undefined))
          /\ UNCHANGED stored
  /\ pc' = "respond"
  /\ UNCHANGED <<storeVars, clientVars, options, request, retryVars,
                 timerVars,
                 transportVars, result, http>>

\* POST: 201 with the cards, or the answer its catch makes of the error
Respond ==
  /\ pc = "respond"
  /\ http' = IF serviceResult.kind = "return"
             THEN Http(201, <<>>, <<>>, "")
             ELSE EndpointCatch(serviceResult)
  /\ pc' = "responded"
  /\ UNCHANGED <<storeVars, clientVars, options, request, retryVars,
                 timerVars,
                 transportVars, result, generation, stored, serviceResult>>

\* one request to the endpoint, from its arrival to its answer
NextGenerate ==
  \/ \E input \in Inputs : Post(input)
  \/ \E ok \in BOOLEAN : InsertGeneration(ok)
  \/ Construct
  \/ OuterCatch
  \/ GetChatCompletion(ServiceOptions)
  \/ pc = "fetching" /\ \E st \in GenerateStatuses, b \in GenerateBodies :
                          FetchResolves(st, b, 0)
  \/ pc = "fetching" /\ \E e \in GenerateExceptions : FetchRejects(e, 0)
  \/ BackoffElapsed
  \/ HandleApiResponse
  \/ AiCatch
  \/ ParseCompletion
  \/ \E outcome \in {"ok", "error", "empty"} : InsertFlashcards(outcome)
  \/ Respond

SpecGenerate == InitGenerate /\ [][NextGenerate]_vars

\* a request arrives at POST /api/flashcards
InitCreate ==
  /\ pc = "idle"
  /\ env = ServerEnv
  /\ client = NewOpenRouterService(ServerEnv)
  /\ NothingCalled
  /\ payload \in Payloads
  /\ card = NoCard
  /\ created = 0
  /\ review = [p \in Reviewers |-> NoReview]

\* POST /api/flashcards with one flashcard: validation, the record is made and
\* inserted; the insert succeeds or the database refuses it
PostFlashcards(inserted) ==
  /\ created = 0
  /\ payload # NoPayload
  /\ LET validation == validateSingleFlashcard(payload) IN
     IF ~validation.valid
     THEN /\ created' = 400
          /\ UNCHANGED card
     ELSE IF inserted
     THEN /\ card' = Card(CreateStatus(validation.data), validation.data.front,
                          validation.data.back, CreateMethod(validation.data))
          /\ created' = 201
     ELSE /\ created' = 500
          /\ UNCHANGED card
  /\ UNCHANGED <<callVars, payload, review>>

NextCreate == \E inserted \in BOOLEAN : PostFlashcards(inserted)

SpecCreate == InitCreate /\ [][NextCreate]_vars

\* a flashcard, reviewed or not, or none, and no review under way
InitReview ==
  /\ pc = "idle"
  /\ env = ServerEnv
  /\ client = NewOpenRouterService(ServerEnv)
  /\ NothingCalled
  /\ payload = NoPayload
  /\ created = 0
  /\ card \in {NoCard}
              \cup {Card(st, "front1", "back1", "ai") :
                      st \in {"pending", "oczekujacy", "accepted", "rejected"}}
  /\ review = [p \in Reviewers |-> NoReview]

\* the other reviews under way run on the same store: the array of
\* [id]/review.ts, or the database
SameStore(p, apis) == \A q \in Reviewers \ {p} : review[q].api \in {"none"} \cup apis

\* [id]/review.ts, up to `await request.json()`: the card is looked up and an
\* accepted or rejected one refused
MockCheck(p) ==
  /\ review[p].pc = "start"
  /\ SameStore(p, {"mock"})
  /\ review' =
       [review EXCEPT ![p] =
          IF ~card.exists
          THEN [@ EXCEPT !.api = "mock", !.pc = "done", !.answer = 404]
          ELSE IF AlreadyReviewed(card.status)
          THEN [@ EXCEPT !.api = "mock", !.pc = "done", !.answer = 409]
          ELSE [@ EXCEPT !.api = "mock", !.pc = "body"]]
  /\ UNCHANGED <<callVars, payload, card, created>>

\* what the action of [id]/review.ts makes of the card; the card itself when
\* the command is refused
MockReviewed(row, command) ==
  CASE command.action = "accept" -> [row EXCEPT !.status = "accepted"]
    [] command.action = "reject" -> [row EXCEPT !.status = "rejected"]
    [] command.action = "edit" /\ ~Blank(command.front) /\ ~Blank(command.back) ->
         [row EXCEPT !.front = command.front, !.back = command.back,
                     !.status = "accepted"]
    [] OTHER -> row

\* whether [id]/review.ts and the handler on the database accept the command
CommandAccepted(command) ==
  \/ command.action \in {"accept", "reject"}
  \/ command.action = "edit" /\ ~Blank(command.front) /\ ~Blank(command.back)

\* [id]/review.ts, from the body on: the command is read, the card copied,
\* changed and written back
MockWrite(p, command) ==
  /\ review[p].pc = "body"
  /\ review[p].api = "mock"
  /\ card' = MockReviewed(card, command)
  /\ review' =
       [review EXCEPT ![p] =
          [@ EXCEPT !.pc = "done", !.command = command,
                    !.answer = IF CommandAccepted(command) THEN 200 ELSE 400]]
  /\ UNCHANGED <<callVars, payload, created>>

\* the record the handler on the database passes to update()
EndpointUpdateRecord(command) ==
  CASE command.action = "accept" -> [NoUpdate EXCEPT !.status = "accepted"]
    [] command.action = "reject" -> [NoUpdate EXCEPT !.status = "rejected"]
    [] OTHER -> [status |-> "accepted", front |-> command.front,
                 back |-> command.back]

\* the review handler on the database, up to update(): the command is read,
\* the card selected and, unless the action is edit, a reviewed card refused
EndpointSelect(p, command) ==
  /\ review[p].pc = "start"
  /\ SameStore(p, {"endpoint", "service"})
  /\ review' =
       [review EXCEPT ![p] =
          LET r == [@ EXCEPT !.api = "endpoint", !.command = command] IN
          IF command.action = "undefined"
          THEN [r EXCEPT !.pc = "done", !.answer = 400]
          ELSE IF ~card.exists
          THEN [r EXCEPT !.pc = "done", !.answer = 404]
          ELSE IF /\ command.action # "edit"
                  /\ AlreadyReviewed(LowerCase(card.status))
          THEN [r EXCEPT !.pc = "done", !.answer = 409]
          ELSE IF ~CommandAccepted(command)
          THEN [r EXCEPT !.pc = "done", !.answer = 400]
          ELSE [r EXCEPT !.pc = "update",
                         !.update = EndpointUpdateRecord(command)]]
  /\ UNCHANGED <<callVars, payload, card, created>>

\* the review handler on the database: update() is carried out
EndpointUpdate(p) ==
  /\ review[p].pc = "update"
  /\ review[p].api = "endpoint"
  /\ card' = ApplyUpdate(card, review[p].update)
  /\ review' = [review EXCEPT ![p] = [@ EXCEPT !.pc = "done", !.answer = 200]]
  /\ UNCHANGED <<callVars, payload, created>>

\* the record reviewFlashcard passes to update(), given the card it read
ServiceUpdateRecord(existing, command) ==
  [status |-> IF command.action = "accept" THEN "accepted"
              ELSE IF command.action = "reject" THEN "rejected"
              ELSE existing.status,
   front |-> IF command.action = "edit" /\ command.front # "undefined"
             THEN command.front ELSE "-",
   back |-> IF command.action = "edit" /\ command.back # "undefined"
            THEN command.back ELSE "-"]

\* reviewFlashcard, up to update(): the card is read by getFlashcardById
ServiceGet(p, command) ==
  /\ review[p].pc = "start"
  /\ SameStore(p, {"endpoint", "service"})
  /\ review' =
       [review EXCEPT ![p] =
          LET r == [@ EXCEPT !.api = "service", !.command = command] IN
          IF ~card.exists
          THEN [r EXCEPT !.pc = "done", !.answer = 404]
          ELSE [r EXCEPT !.pc = "update",
                         !.update = ServiceUpdateRecord(card, command)]]
  /\ UNCHANGED <<callVars, payload, card, created>>

\* reviewFlashcard: update() is carried out
ServiceUpdate(p) ==
  /\ review[p].pc = "update"
  /\ review[p].api = "service"
  /\ card' = ApplyUpdate(card, review[p].update)
  /\ review' = [review EXCEPT ![p] = [@ EXCEPT !.pc = "done", !.answer = 200]]
  /\ UNCHANGED <<callVars, payload, created>>

\* two reviews of one flashcard, in every interleaving
NextReview ==
  \E p \in Reviewers :
    \/ MockCheck(p)
    \/ \E command \in ReviewCommands : MockWrite(p, command)
    \/ \E command \in ReviewCommands : EndpointSelect(p, command)
    \/ EndpointUpdate(p)
    \/ \E command \in ReviewCommands : ServiceGet(p, command)
    \/ ServiceUpdate(p)

SpecReview == InitReview /\ [][NextReview]_vars

----------------------------------------------------------------------------
(* Vocabulary of the properties *)

Done == pc = "done"
Failed(name) == result.kind = "throw" /\ result.name = name
Returned == result.kind = "return"

Is5xx(status) == status \in 500..599

\* an attempt after which _fetchWithRetry may try again
Transient(a) ==
  \/ a.kind = "response" /\ Is5xx(a.status)
  \/ a.kind = "exception" /\ a.name = "TypeError"

AllAttempts(P(_)) == attempts # <<>> /\ \A i \in 1..Len(attempts) : P(attempts[i])

Is500(a) == a = Responded(500)
IsException(a) == a.kind = "exception"
IsTypeError(a) == a.kind = "exception" /\ a.name = "TypeError"

\* the text `small` occurs in `big` unchanged
ContainsText(big, small) ==
  \E k \in 0..(Len(big) - Len(small)) :
    \A i \in 1..Len(small) : big[k + i] = small[i]

\* the body of the final response has an error envelope / none
HasEnvelope == response.present /\ response.body.json = "object"
               /\ response.body.error.present
Envelope == response.body.error

\* the credit rule and the authentication rule, as the specification words them
CreditRule(e) ==
  \/ e.code.t = "number" /\ e.code.n = 402
  \/ /\ e.message.t = "string"
     /\ \E f \in {"more credits", "can only afford", "token limit"} :
          \E i \in 1..Len(e.message.s) : e.message.s[i] = f

AuthRule(e) ==
  \/ e.code.t = "number" /\ e.code.n = 401
  \/ e.type.t = "string" /\ e.type.s = <<"invalid_request_error">>
  \/ /\ e.message.t = "string"
     /\ \E f \in {"API key", "authentication", "authorized"} :
          \E i \in 1..Len(e.message.s) : e.message.s[i] = f

NetworkPrefix == <<"Network error while connecting to OpenRouter API: ">>

----------------------------------------------------------------------------
(* Properties *)

\* C1: when every attempt answered HTTP 500 and the body carries no error
\* envelope, exactly 4 fetches were made and the call failed with ServerError;
\* it never returns a value.
C1_Always500FailsWithServerError ==
  (Done /\ AllAttempts(Is500) /\ ~response.body.error.present)
    => (fetchCount = 4 /\ Failed("ServerError"))

\* C2: every returned value has a non-empty choices array whose element 0 has
\* a message object whose content is a string.
C2_ReturnedValueHasStringContent ==
  Returned =>
    /\ result.value.json = "object"
    /\ result.value.choices.has
    /\ result.value.choices.t = "array"
    /\ result.value.choices.len >= 1
    /\ result.value.choices.first = "object"
    /\ result.value.choices.message = "object"
    /\ result.value.choices.content = "string"

\* C3: a request whose model is empty or whose messages are missing or empty
\* fails with ValidationError and fetch is never invoked.
C3_InvalidRequestNeverFetches ==
  (pc # "idle" /\ (options.model = "" \/ ~options.hasMessages
                   \/ options.messages = <<>>))
    => (Done /\ Failed("ValidationError") /\ fetchCount = 0 /\ attempts = <<>>)

C3_Witness ==
  /\ Done
  /\ options.model = "m1" /\ options.hasMessages /\ options.messages = <<>>
  /\ Failed("ValidationError")
  /\ fetchCount = 0

\* C4: when the body parses and has no error envelope, the HTTP status decides:
\* 401 fails with AuthenticationError, 429 with RateLimitError, 5xx with
\* ServerError, and a value is returned only for other statuses.
C4_StatusDecidesWithoutEnvelope ==
  (Done /\ response.present /\ response.body.json # "invalid"
        /\ ~response.body.error.present)
    => /\ response.status = 401 => Failed("AuthenticationError")
       /\ response.status = 429 => Failed("RateLimitError")
       /\ Is5xx(response.status) => Failed("ServerError")
       /\ Returned => response.status \notin {401, 429} /\ ~Is5xx(response.status)

\* C5: a response whose status is outside 500-599 is never retried; when it is
\* the first response, exactly 1 fetch is made.
C5_NoRetryAfterNon5xx ==
  \A i \in 1..Len(attempts) :
    (attempts[i].kind = "response" /\ ~Is5xx(attempts[i].status))
      => /\ i = Len(attempts)
         /\ fetchCount = i
         /\ pc \in {"handle", "done"}

C5_Witness ==
  /\ Done
  /\ attempts = <<Responded(400)>>
  /\ fetchCount = 1

\* C6 (as claimed): when fetch throws on every attempt, whatever the
\* exception, exactly 4 attempts are made and the call fails with NetworkError
\* carrying the last exception's message.
C6_EveryExceptionRetried ==
  (Done /\ AllAttempts(IsException))
    => /\ fetchCount = 4
       /\ Failed("NetworkError")
       /\ result.message = NetworkPrefix \o thrown.message

\* C6 (amended): when fetch throws a TypeError on every attempt, exactly 4
\* attempts are made and the call fails with NetworkError carrying the last
\* exception's message; an exception that is not a TypeError is not retried:
\* the attempt that threw it is the last one and the call fails with
\* NetworkError carrying its message.
C6_TypeErrorsRetriedOthersNot ==
  /\ (Done /\ AllAttempts(IsTypeError))
       => /\ fetchCount = maxRetries + 1
          /\ Failed("NetworkError")
          /\ result.message = NetworkPrefix \o thrown.message
  /\ \A i \in 1..Len(attempts) :
       (IsException(attempts[i]) /\ ~IsTypeError(attempts[i]))
         => /\ i = Len(attempts)
            /\ fetchCount = i
            /\ Done
            /\ Failed("NetworkError")
            /\ thrown.name = attempts[i].name
            /\ result.message = NetworkPrefix \o thrown.message

C6_Witness ==
  /\ Done
  /\ Len(attempts) = 4
  /\ AllAttempts(IsTypeError)
  /\ thrown.message = <<"read ECONNRESET">>
  /\ Failed("NetworkError")

\* C7 (as claimed): a call that fails with RateLimitError or
\* AuthenticationError made exactly one network attempt.
C7_RateLimitAndAuthAfterOneAttempt ==
  (Done /\ (Failed("RateLimitError") \/ Failed("AuthenticationError")))
    => fetchCount = 1

\* C7 (amended): when a call fails with RateLimitError or AuthenticationError,
\* the response classified so is the last attempt, every attempt before it
\* ended in a 5xx response or a TypeError, and that response was itself
\* retried only if its status is 5xx (then the retries are used up); so
\* exactly one attempt was made unless a 5xx response or a TypeError occurred.
C7_RateLimitAndAuthNotRetried ==
  (Done /\ (Failed("RateLimitError") \/ Failed("AuthenticationError")))
    => /\ response.present
       /\ fetchCount = Len(attempts)
       /\ attempts[Len(attempts)] = Responded(response.status)
       /\ \A i \in 1..(Len(attempts) - 1) : Transient(attempts[i])
       /\ Is5xx(response.status) => fetchCount = maxRetries + 1
       /\ (\A i \in 1..Len(attempts) : ~Transient(attempts[i])) => fetchCount = 1

C7_Witness ==
  /\ Done
  /\ Failed("RateLimitError")
  /\ attempts = <<Responded(503), Responded(429)>>
  /\ fetchCount = 2

\* C8: an error envelope whose code is the number 402, or whose message
\* contains "more credits", "can only afford" or "token limit", makes the call
\* fail with RateLimitError on every HTTP status, 200 included, and the
\* error's message contains the gateway's message unchanged.
C8_CreditEnvelopeIsRateLimit ==
  (Done /\ HasEnvelope /\ CreditRule(Envelope))
    => /\ Failed("RateLimitError")
       /\ Envelope.message.t = "string"
            => ContainsText(result.message, Envelope.message.s)

C8_Witness ==
  /\ Done
  /\ response.present /\ response.status = 200
  /\ HasEnvelope
  /\ Envelope.code = Undefined
  /\ Envelope.message = Str(<<"other text", "can only afford">>)
  /\ Failed("RateLimitError")
  /\ result.message =
       <<"Credit limit exceeded: ", "other text", "can only afford">>

\* C9: an error envelope that does not match the credit rule and whose code is
\* 401, or whose type is invalid_request_error, or whose message contains
\* "API key", "authentication" or "authorized", makes the call fail with
\* AuthenticationError, not with the generic OpenRouterApiError, on every HTTP
\* status, 200 included.
C9_AuthEnvelopeIsAuthenticationError ==
  (Done /\ HasEnvelope /\ ~CreditRule(Envelope) /\ AuthRule(Envelope))
    => Failed("AuthenticationError")

C9_Witness ==
  /\ Done
  /\ response.present /\ response.status = 200
  /\ HasEnvelope
  /\ Envelope.code = Num(401)
  /\ Envelope.message = Str(<<"other text", "API key">>)
  /\ Failed("AuthenticationError")

\* C10: an error envelope matching neither rule makes the call fail with the
\* generic OpenRouterApiError whose message is the gateway's message and whose
\* status is a number: the envelope's code when given, otherwise 400.
C10_GenericErrorHasNumericStatus ==
  (Done /\ HasEnvelope /\ ~CreditRule(Envelope) /\ ~AuthRule(Envelope))
    => /\ Failed("OpenRouterApiError")
       /\ Truthy(Envelope.message) => result.message = Envelope.message.s
       /\ result.status.t = "number"
       /\ Envelope.code.t = "undefined" => result.status = Num(400)
       /\ Envelope.code.t = "number" => result.status = Envelope.code

\* what the catch block of _handleApiResponse makes of a failure that is not
\* an API error, by HTTP status
StatusFallback(status) ==
  IF status = 401 THEN "AuthenticationError"
  ELSE IF status = 429 THEN "RateLimitError"
  ELSE IF status >= 500 THEN "ServerError"
  ELSE "ParsingError"

\* C11 (as claimed): a body that is not JSON makes the call fail with
\* AuthenticationError on HTTP 401 and with ParsingError on every other status.
C11_NonJsonIsAuthOrParsingError ==
  (Done /\ response.present /\ response.body.json = "invalid")
    => IF response.status = 401 THEN Failed("AuthenticationError")
       ELSE Failed("ParsingError")

\* C11 (amended): a body that is not JSON makes the call fail with
\* AuthenticationError on HTTP 401, RateLimitError on 429, ServerError on a
\* status of 500 or more, and ParsingError on every other status.
C11_NonJsonFailsByStatus ==
  (Done /\ response.present /\ response.body.json = "invalid")
    => /\ response.status = 401 => Failed("AuthenticationError")
       /\ response.status = 429 => Failed("RateLimitError")
       /\ response.status >= 500 => Failed("ServerError")
       /\ (response.status \notin {401, 429} /\ response.status < 500)
            => Failed("ParsingError")

C11_Witness ==
  /\ Done
  /\ response.present /\ response.body.json = "invalid"
  /\ response.status = 429
  /\ Failed("RateLimitError")
  /\ result.message = <<"Rate limit exceeded">>

\* the four structure requirements on a body with a choices key, as the
\* specification words them
ChoicesWellFormed(c) ==
  /\ c.t = "array" /\ c.len >= 1
  /\ c.first \in {"object", "array"}
  /\ c.message \in {"object", "array"}
  /\ c.content = "string"

HasChoicesNoEnvelope ==
  /\ response.present
  /\ response.body.json = "object"
  /\ ~response.body.error.present
  /\ response.body.choices.has

\* C12 (as claimed): a body with a choices key and no error envelope that
\* violates one of the four structure requirements makes the call fail with
\* ParsingError; a body that meets them is returned.
C12_StructureViolationIsParsingError ==
  (Done /\ HasChoicesNoEnvelope)
    => IF ChoicesWellFormed(response.body.choices)
       THEN Returned /\ result.value = response.body
       ELSE Failed("ParsingError")

\* C12 (amended): such a violation makes the call fail: with ParsingError
\* naming the violated requirement when the HTTP status is not 401, not 429
\* and below 500 (so on HTTP 200), with AuthenticationError on 401,
\* RateLimitError on 429 and ServerError on 500 or more; a body that meets the
\* four requirements is returned.
C12_StructureViolationFailsByStatus ==
  (Done /\ HasChoicesNoEnvelope)
    => IF ChoicesWellFormed(response.body.choices)
       THEN Returned /\ result.value = response.body
       ELSE /\ Failed(StatusFallback(response.status))
            /\ Failed("ParsingError")
                 => /\ Len(result.message) = 2
                    /\ result.message[1] = "Failed to parse API response: "
                    /\ result.message[2] \in
                         {"Invalid response structure: missing choices array",
                          "Invalid response structure: first choice is invalid",
                          "Invalid response structure: message is missing or invalid",
                          "Invalid response structure: content is not a string"}

C12_Witness ==
  /\ Done
  /\ HasChoicesNoEnvelope
  /\ response.status = 200
  /\ response.body.choices.t = "array" /\ response.body.choices.len = 0
  /\ Failed("ParsingError")

\* C14: a 4xx response that is neither an authentication nor a rate-limit
\* rejection, HTTP 400 in particular, makes the call fail with BadRequestError.
C14_Http400IsBadRequestError ==
  (Done /\ response.present /\ response.status = 400
        /\ (HasEnvelope => ~CreditRule(Envelope) /\ ~AuthRule(Envelope)))
    => Failed("BadRequestError")

\* the error kinds of the taxonomy
TypedErrors ==
  {"ValidationError", "AuthenticationError", "BadRequestError",
   "RateLimitError", "ServerError", "NetworkError", "ParsingError",
   "OpenRouterApiError"}

\* C13 (as claimed): every failing call fails with an error of the typed
\* taxonomy, never with a plain Error.
C13_EveryFailureIsTyped ==
  (Done /\ result.kind = "throw") => result.name \in TypedErrors

\* C13 (amended): every failing call fails with one error; it is of the typed
\* taxonomy whenever the failure comes from validation, from the transport or
\* from the response; a request body that cannot be serialized fails, before
\* any network call, with a plain Error "Failed to get chat completion: ...".
C13_FailuresTypedUnlessUnserializable ==
  (Done /\ result.kind = "throw")
    => \/ result.name \in TypedErrors
       \/ /\ result.name = "Error"
          /\ options.response_format = "circular"
          /\ fetchCount = 0
          /\ ~request.sent
          /\ result.message[1] = "Failed to get chat completion: "

C13_Witness ==
  /\ Done
  /\ options.response_format = "circular"
  /\ Failed("Error")
  /\ fetchCount = 0

\* the optional fields the caller supplied
Supplied(o) ==
  {f \in {"temperature", "max_tokens", "top_p", "frequency_penalty",
          "presence_penalty"} : o[f].t # "undefined"}
  \cup (IF o.response_format = "undefined" THEN {} ELSE {"response_format"})

\* C15: the outbound payload has exactly the keys model and messages plus
\* the optional fields the caller supplied; an omitted field is not a key, no
\* key carries undefined or null, and a supplied number 0 is sent as 0.
C15_PayloadHasExactlyTheSuppliedKeys ==
  request.sent
    => /\ DOMAIN request.body = {"model", "messages"} \cup Supplied(options)
       /\ \A k \in DOMAIN request.body :
            request.body[k].t \notin {"undefined", "null"}
       /\ \A f \in Supplied(options) \ {"response_format"} :
            request.body[f] = options[f]

C15_Witness ==
  /\ request.sent
  /\ options.temperature = Num(0)
  /\ options.max_tokens = Undefined
  /\ options.response_format = "undefined"
  /\ options.top_p = Num(1)
  /\ DOMAIN request.body = {"model", "messages", "temperature", "top_p"}
  /\ request.body["temperature"] = Num(0)

\* C16: at most one fetch of the call is in flight; a further fetch is issued
\* only when the one before has settled, with a 5xx response or a TypeError,
\* and the backoff timer set for it has fired.
C16_RetriesAreSequential ==
  [][/\ inFlight' <= 1
     /\ fetchCount' # fetchCount
          => /\ fetchCount' = fetchCount + 1
             /\ inFlight = 0 /\ inFlight' = 1
             /\ Len(attempts) = fetchCount
             /\ fetchCount >= 1
                  => /\ Transient(attempts[fetchCount])
                     /\ timer.base > 0
                     /\ delays' = Append(delays, timer)
                     /\ Len(delays') = fetchCount]_vars

C16_Witness ==
  /\ fetchCount = 3
  /\ inFlight = 1
  /\ Len(attempts) = 2
  /\ Len(delays) = 2

\* the delay before retry attempt N+1, jitter ignored, N = 0, 1, 2
ExpectedBase == <<1000, 2000, 4000>>

\* C17: the delay before retry attempt N+1 is 2^N * 1000 ms plus a jitter in
\* [0, 1000) ms: at least 2^N seconds, strictly increasing in N when the jitter
\* is ignored, and no delay precedes the first attempt.
C17_BackoffDelayDoubles ==
  /\ fetchCount >= 1 => Len(delays) = fetchCount - 1
  /\ fetchCount = 0 => delays = <<>>
  /\ \A n \in 1..Len(delays) :
       /\ n <= 3
       /\ delays[n].base = ExpectedBase[n]
       /\ delays[n].jitter >= 0 /\ delays[n].jitter < 1000
       /\ delays[n].base + delays[n].jitter >= ExpectedBase[n]
       /\ n > 1 => delays[n].base > delays[n - 1].base
  /\ pc = "backoff" => timer.base = ExpectedBase[retryCount + 1]

C17_Witness ==
  /\ Len(delays) = 3
  /\ delays[1] = [base |-> 1000, jitter |-> 500]
  /\ delays[3] = [base |-> 4000, jitter |-> 999]
  /\ fetchCount = 4

\* C18: constructing the client without a configured key fails at once and
\* yields no instance; every request sent carries a key that was configured.
C18_NoKeyNoClient ==
  /\ (pc # "new" /\ env.OPENROUTER_API_KEY = ""
                 /\ env.PUBLIC_OPENROUTER_API_KEY = "")
       => /\ pc = "unconfigured"
          /\ ~client.configured
          /\ Failed("Error")
          /\ fetchCount = 0 /\ ~request.sent
  /\ client.configured
       => /\ client.apiKey # ""
          /\ client.apiKey \in {env.OPENROUTER_API_KEY,
                                env.PUBLIC_OPENROUTER_API_KEY}
  /\ request.sent
       => /\ client.configured
          /\ request.authorization = <<"Bearer ", client.apiKey>>

C18_Witness ==
  /\ pc = "unconfigured"
  /\ env.OPENROUTER_API_KEY = "" /\ env.PUBLIC_OPENROUTER_API_KEY = ""
  /\ env.APP_URL # ""
  /\ Failed("Error")
  /\ ~client.configured

\* the endpoint has answered the request
Answered == pc = "responded"

\* C19 (as claimed): when getChatCompletion fails with a RateLimitError that
\* is not the credit-exhaustion variant, the endpoint answers HTTP 429.
C19_PlainRateLimitAnswers429 ==
  (/\ Answered
   /\ Failed("RateLimitError")
   /\ ~Includes(result.message, "Credit limit exceeded"))
    => http.status = 429

\* C20 (as claimed): when getChatCompletion fails with an
\* AuthenticationError, the endpoint answers HTTP 500 with one fixed text and
\* nothing of the gateway's message, whatever that message says.
C20_AuthenticationErrorAnswersFixed500 ==
  (Answered /\ Failed("AuthenticationError"))
    => /\ http.status = 500
       /\ http.error =
            <<"Authentication error with AI service. Please contact support.">>
       /\ http.message = <<>>
       /\ http.code = ""

\* the call failed with the credit-exhaustion variant of RateLimitError
CreditExhausted ==
  Failed("RateLimitError") /\ result.message[1] = "Credit limit exceeded: "

\* C21 (as claimed): a credit-exhaustion RateLimitError is answered HTTP 402
\* with code CREDIT_LIMIT_EXCEEDED; requestedTokens and availableTokens are
\* the numbers R and A of "<R> tokens, but can only afford <A>" in the
\* gateway's message, and null when the message has no such numbers.
C21_CreditExhaustionAnswers402WithCounts ==
  (Answered /\ CreditExhausted)
    => /\ http.status = 402
       /\ http.code = "CREDIT_LIMIT_EXCEEDED"
       /\ IF \E i \in 1..Len(result.message) :
               result.message[i] = "4096 tokens, but can only afford 1234"
          THEN http.requestedTokens = "4096" /\ http.availableTokens = "1234"
          ELSE http.requestedTokens = "null" /\ http.availableTokens = "null"

Invoked == pc \in {"fetching", "backoff", "handle"}

\* C23: every invocation of getChatCompletion completes, when every fetch
\* settles, every body read completes and every backoff timer fires: the
\* caller gets a response or one final failure after at most maxRetries + 1
\* fetches, and the outcome, once there, does not change.
C23_EveryCallCompletes ==
  /\ Invoked ~> (Done /\ result.kind \in {"return", "throw"})
  /\ [](fetchCount <= maxRetries + 1)
  /\ [][Done => (Done' /\ result' = result)]_vars

C23_Witness ==
  /\ Done
  /\ result.kind = "throw"
  /\ fetchCount = maxRetries + 1
  /\ Len(delays) = maxRetries
  /\ \A i \in 1..Len(attempts) : Transient(attempts[i])

\* C24: an error envelope that matches the credit rule and the authentication
\* rule at once makes the call fail with RateLimitError, the credit variant
\* with status 429, and never with AuthenticationError.
C24_CreditRuleWinsOverAuthRule ==
  (Done /\ HasEnvelope /\ CreditRule(Envelope) /\ AuthRule(Envelope))
    => /\ result.kind = "throw"
       /\ result.name = "RateLimitError"
       /\ result.name # "AuthenticationError"
       /\ result.message[1] = "Credit limit exceeded: "
       /\ result.status = Num(429)

C24_Witness ==
  /\ Done
  /\ response.present /\ response.status = 401
  /\ HasEnvelope
  /\ Envelope.code = Num(401)
  /\ Envelope.type = Str(<<"invalid_request_error">>)
  /\ Envelope.message = Str(<<"token limit", "authorized">>)
  /\ Failed("RateLimitError")

\* C25: whatever the order of 5xx responses and TypeErrors, one call makes at
\* most maxRetries + 1 = 4 fetches: both kinds of failure count on the one
\* retry counter, which is the number of fetches made before the current one
\* and never exceeds 3; each failed attempt is followed by at most one further
\* fetch, and no fetch and no timer follows the failure of the fourth attempt.
C25_MixedFailuresShareTheRetryBudget ==
  /\ fetchCount <= 4
  /\ retryCount <= 3
  /\ fetchCount >= 1 => retryCount = fetchCount - 1
  /\ fetchCount = Len(attempts) + inFlight
  /\ \A i \in 1..(Len(attempts) - 1) : Transient(attempts[i])
  /\ (Len(attempts) = 4 /\ Transient(attempts[4]))
       => /\ pc \in {"handle", "done"}
          /\ inFlight = 0
          /\ timer.base = 0

C25_Witness ==
  /\ Done
  /\ fetchCount = 4
  /\ Len(attempts) = 4
  /\ Is5xx(attempts[1].status) /\ attempts[1].kind = "response"
  /\ IsTypeError(attempts[2])
  /\ attempts[3] = Responded(503)
  /\ IsTypeError(attempts[4])
  /\ Failed("NetworkError")

\* generateFlashcards has returned or thrown
ServiceExited == pc \in {"respond", "responded"}

\* C26 (as claimed): when generateFlashcards returns or throws, a generation
\* record that was created is completed or failed, never still processing,
\* on every exit path, a failing constructor of the client included.
C26_NoRecordLeftProcessing ==
  (ServiceExited /\ generation # "none")
    => generation \in {"completed", "failed"}

\* C27 (as claimed): the generation record is completed only when the
\* generated flashcards are stored.
C27_CompletedOnlyWhenStored ==
  generation = "completed" => stored

\* C30 (as claimed): the review status of a flashcard created by
\* POST /api/flashcards is the status_recenzji of the request when that is
\* pending, accepted or rejected; otherwise accepted for the method manual and
\* pending for the method AI.
C30_CreatedStatusFollowsRequest ==
  created = 201
    => card.status =
         IF payload.status_recenzji \in {"pending", "accepted", "rejected"}
         THEN payload.status_recenzji
         ELSE IF payload.metoda_tworzna = "manual" THEN "accepted"
         ELSE "pending"

\* request p to POST /api/flashcards/:id/review was an accept or a reject and
\* was answered 200
ReviewSucceeded(p) ==
  /\ review[p].api \in {"mock", "endpoint"}
  /\ review[p].pc = "done"
  /\ review[p].command.action \in {"accept", "reject"}
  /\ review[p].answer = 200

\* C28 (as claimed): an accept or reject of a flashcard that is no longer
\* pending is answered 409, so of two concurrent accept/reject requests for
\* one flashcard at most one succeeds, in every interleaving.
C28_AtMostOneReviewSucceeds ==
  \A p, q \in Reviewers : (ReviewSucceeded(p) /\ ReviewSucceeded(q)) => p = q

\* call p of reviewFlashcard had the given action and has returned the card
ServiceReviewed(p, action) ==
  /\ review[p].api = "service"
  /\ review[p].pc = "done"
  /\ review[p].command.action = action
  /\ review[p].answer = 200

\* C29 (as claimed): an edit by reviewFlashcard keeps the review status, in
\* every interleaving with an accept or a reject of the same flashcard: when
\* both calls have returned, the status is the one the accept or reject set.
C29_EditKeepsStatusOfConcurrentReview ==
  \A p, q \in Reviewers :
    (ServiceReviewed(p, "edit") /\ p # q)
      => /\ ServiceReviewed(q, "accept") => card.status = "accepted"
         /\ ServiceReviewed(q, "reject") => card.status = "rejected"

====
